---- MODULE Spec2Model ----
(***************************************************************************)
(* Model of src/src/models/bnt.py: the learning-rate scheduler state       *)
(* machine (LRScheduler) and the stage bookkeeping of the pooling          *)
(* transformer stack (BrainNetworkTransformer / TransPoolingEncoder).      *)
(*                                                                         *)
(* Numbers: Python floats are modelled as exact rationals <<n, d>> in      *)
(* lowest terms with d > 0; the rounding of IEEE doubles (relative error   *)
(* 2^-53) is not modelled.  None is the pair <<0, 0>>.                      *)
(***************************************************************************)
EXTENDS Integers, Sequences, FiniteSets, TLC

(* ------------------------------ bounds -------------------------------- *)
MaxTotalSteps == 4
MaxWarmUp == 5
MaxGroups == 2
MaxStages == 3

(* one call more than is needed to see two failing calls in a row *)
MaxCalls == MaxTotalSteps + 4

(* ---------------------------- rationals ------------------------------- *)
None == <<0, 0>>

Abs(n) == IF n < 0 THEN 0 - n ELSE n

RECURSIVE GCD(_, _)
GCD(a, b) == IF b = 0 THEN a ELSE GCD(b, a % b)

(* n / d for integers n and d # 0, in lowest terms with the sign on top *)
RNorm(n, d) ==
    LET g == GCD(Abs(n), Abs(d))
    IN  IF d < 0 THEN <<(0 - n) \div g, (0 - d) \div g>>
                 ELSE <<n \div g, d \div g>>

RInt(n) == <<n, 1>>

RNeg(a) == <<0 - a[1], a[2]>>

RAdd(a, b) ==
    LET g == GCD(a[2], b[2])
    IN  RNorm(a[1] * (b[2] \div g) + b[1] * (a[2] \div g), (a[2] \div g) * b[2])

RSub(a, b) == RAdd(a, RNeg(b))

RMul(a, b) ==
    LET g1 == GCD(Abs(a[1]), b[2])
        g2 == GCD(Abs(b[1]), a[2])
    IN  RNorm((a[1] \div g1) * (b[1] \div g2), (a[2] \div g2) * (b[2] \div g1))

(* a / n for an integer n > 0 *)
RDivInt(a, n) == RMul(a, <<1, n>>)

RLess(a, b) == a[1] * b[2] < b[1] * a[2]

RECURSIVE RPow(_, _)
RPow(a, k) == IF k = 0 THEN RInt(1) ELSE RMul(a, RPow(a, k - 1))

(* ------------------------ library functions --------------------------- *)
(* bisect.bisect_left(a, x): the binary search of the standard library,   *)
(* lo = 0, hi = len(a); while lo < hi: mid = (lo + hi) // 2;               *)
(* if a[mid] < x: lo = mid + 1 else: hi = mid; return lo.                  *)
(* Python indexes from 0, the sequence from 1.                             *)
RECURSIVE BisectLoop(_, _, _, _)
BisectLoop(a, x, lo, hi) ==
    IF lo < hi
    THEN LET mid == (lo + hi) \div 2
         IN  IF RLess(a[mid + 1], x)
             THEN BisectLoop(a, x, mid + 1, hi)
             ELSE BisectLoop(a, x, lo, mid)
    ELSE lo

(* bisect_right in place of bisect_left: elements equal to x are passed *)
RECURSIVE BisectRightLoop(_, _, _, _)
BisectRightLoop(a, x, lo, hi) ==
    IF lo < hi
    THEN LET mid == (lo + hi) \div 2
         IN  IF RLess(x, a[mid + 1])
             THEN BisectRightLoop(a, x, lo, mid)
             ELSE BisectRightLoop(a, x, mid + 1, hi)
    ELSE lo

bisect_right(a, x) == BisectRightLoop(a, x, 0, Len(a))

bisect_left(a, x) == BisectLoop(a, x, 0, Len(a))

(* math.cos(math.pi * r) for a rational r = p/q in [0, 1].  Where the     *)
(* cosine is rational (r in {0, 1/3, 1/2, 2/3, 1}) the value is exact (the *)
(* double differs from it by less than 2^-52); elsewhere it is the Taylor  *)
(* polynomial of degree 8 in fixed point with CosScale units, reduced to   *)
(* [0, pi/2] by cos(pi - x) = -cos(x).                                     *)
CosScale == 1000
PiScaled == 3142

CosTaylor(X) ==
    LET S  == CosScale
        t1 == ((((S * X) \div S) * X) \div S) \div 2
        t2 == ((((t1 * X) \div S) * X) \div S) \div 12
        t3 == ((((t2 * X) \div S) * X) \div S) \div 30
        t4 == ((((t3 * X) \div S) * X) \div S) \div 56
    IN  S - t1 + t2 - t3 + t4

CosPi(r) ==
    LET p == r[1]
        q == r[2]
    IN  IF p = 0 THEN RInt(1)
        ELSE IF p = q THEN RInt(-1)
        ELSE IF 2 * p = q THEN RInt(0)
        ELSE IF 3 * p = q THEN <<1, 2>>
        ELSE IF 3 * p = 2 * q THEN <<-1, 2>>
        ELSE IF 2 * p < q
             THEN RNorm(CosTaylor((PiScaled * p) \div q), CosScale)
             ELSE RNorm(0 - CosTaylor((PiScaled * (q - p)) \div q), CosScale)

(* --------------------------- configuration ---------------------------- *)
Modes == {"step", "poly", "cos", "linear", "decay"}

BaseLRs == {<<1, 10000>>, <<1, 1000>>}
TargetLRs == {<<1, 100000>>}
WarmUpFroms == {<<0, 1>>, <<1, 100000>>}
DecayFactors == {<<1, 10>>, <<1, 2>>}
PolyPowers == {2, 3}
LRDecays == {<<49, 50>>}
OptimizerLRs == {<<1, 2000>>}

(* milestone lists of the configuration; the code does not check that a   *)
(* list is sorted, so one unsorted list is among them                     *)
MilestoneLists ==
    { << <<3, 10>>, <<6, 10>>, <<9, 10>> >>,
      << <<1, 2>> >>,
      << <<1, 4>>, <<1, 2>>, <<1, 2>>, <<3, 4>> >>,
      << <<9, 10>>, <<3, 10>> >> }

IsSorted(a) == \A i \in 1..Len(a) : \A j \in i..Len(a) : ~RLess(a[j], a[i])

(* default_HPs, scheduler part *)
DefaultScheduler ==
    [ mode |-> "cos", base_lr |-> <<1, 10000>>, target_lr |-> <<1, 100000>>,
      decay_factor |-> <<1, 10>>,
      milestones |-> << <<3, 10>>, <<6, 10>>, <<9, 10>> >>,
      poly_power |-> 2, lr_decay |-> <<49, 50>>,
      warm_up_from |-> <<0, 1>>, warm_up_steps |-> 0 ]

(* the scheduler configurations explored: the fields a mode does not read *)
(* stay at their defaults                                                 *)
SchedulerConfigs ==
    { c \in { [ DefaultScheduler EXCEPT !.mode = m, !.base_lr = b,
                    !.target_lr = t, !.warm_up_from = f, !.warm_up_steps = w,
                    !.decay_factor = d, !.milestones = ms, !.poly_power = pp ] :
                m \in Modes, b \in BaseLRs, t \in TargetLRs, f \in WarmUpFroms,
                w \in 0..MaxWarmUp, d \in DecayFactors, ms \in MilestoneLists,
                pp \in PolyPowers } :
        /\ (c.mode # "step" => /\ c.decay_factor = DefaultScheduler.decay_factor
                               /\ c.milestones = DefaultScheduler.milestones)
        /\ (c.mode # "poly" => c.poly_power = DefaultScheduler.poly_power) }

(* attributes LRScheduler.__init__ assigns on self *)
SchedulerAttrs ==
    { "optimizer", "current_step", "scheduler_cfg", "lr_mode", "base_lr",
      "target_lr", "warm_up_from", "warm_up_steps", "total_steps", "lr" }

(* attributes BrainNetworkTransformer.__init__ assigns on self            *)
(* (node_identity only with the identity position encoding)               *)
ModelAttrs ==
    { "attention_list", "pos_encoding", "node_identity", "do_pooling",
      "dim_reduction", "fc" }

VARIABLES
    scheduler_cfg,    \* model_cfg.scheduler, read-only after construction
    total_steps,      \* cfg.mode.max_epochs
    current_step,     \* LRScheduler.current_step
    lr,               \* LRScheduler.lr, None before the first step
    param_groups,     \* optimizer.param_groups, the "lr" entry of each group
    outcome,          \* how the last step() call ended
    calls,            \* number of step() calls made so far
    model_cfg,        \* [node_sz, sizes, pooling] of the model configuration
    attention_list,   \* BrainNetworkTransformer.attention_list
    loss_ret,         \* how the last loss() call ended
    centers_ret,      \* how the last get_cluster_centers() call ended
    forward_ret,      \* how the last BrainNetworkTransformer.forward ended
    assignment_cfg,   \* arguments of ClusterAssignment.__init__
    initial_centers,  \* initial_cluster_centers as drawn by the initializer
    cluster_centers,  \* ClusterAssignment.cluster_centers, <<>> before __init__
    assign_ret        \* what the last ClusterAssignment.forward returned

sched_vars == <<scheduler_cfg, total_steps, current_step, lr, param_groups,
                outcome, calls>>
model_vars == <<model_cfg, attention_list, loss_ret, centers_ret, forward_ret>>
cluster_vars == <<assignment_cfg, initial_centers, cluster_centers, assign_ret>>
vars == <<scheduler_cfg, total_steps, current_step, lr, param_groups,
          outcome, calls, model_cfg, attention_list, loss_ret, centers_ret,
          forward_ret, assignment_cfg, initial_centers, cluster_centers,
          assign_ret>>

(* ----------------------------- LRScheduler ---------------------------- *)
(* the warm-up ratio taken one step late *)
WarmUpRatio_NextStep(cs, wus) == RNorm(cs + 1, wus)

(* current_ratio of the warm-up branch: current_step / warm_up_steps *)
WarmUpRatio(cs, wus) == RNorm(cs, wus)

(* lines 128-131 *)
WarmUpLR(c, cs) ==
    RAdd(c.warm_up_from,
         RMul(RSub(c.base_lr, c.warm_up_from), WarmUpRatio(cs, c.warm_up_steps)))

(* current_ratio of the steady-state branch *)
CurrentRatio(cs, wus, ts) == RNorm(cs - wus, ts - wus)

(* lines 137-138 *)
StepLR(c, ratio) ==
    LET count == bisect_left(c.milestones, ratio)
    IN  RMul(c.base_lr, RPow(c.decay_factor, count))

(* lines 140-141 *)
PolyLR(c, ratio) ==
    LET poly == RPow(RSub(RInt(1), ratio), c.poly_power)
    IN  RAdd(c.target_lr, RMul(RSub(c.base_lr, c.target_lr), poly))

(* the cosine term with the wrong sign *)
CosLR_MinusCosine(c, ratio) ==
    LET cosine == CosPi(ratio)
    IN  RAdd(c.target_lr,
             RDivInt(RMul(RSub(c.base_lr, c.target_lr), RSub(RInt(1), cosine)), 2))

(* lines 143-146 *)
CosLR(c, ratio) ==
    LET cosine == CosPi(ratio)
    IN  RAdd(c.target_lr,
             RDivInt(RMul(RSub(c.base_lr, c.target_lr), RAdd(RInt(1), cosine)), 2))

(* lines 148-150 *)
LinearLR(c, ratio) ==
    RAdd(c.target_lr, RMul(RSub(c.base_lr, c.target_lr), RSub(RInt(1), ratio)))

(* the assertion without its upper bound *)
StepRaises_NoUpperBound(c, ts, cs) ==
    IF ~(0 <= cs) THEN "AssertionError"
    ELSE IF cs < c.warm_up_steps THEN "ok"
    ELSE IF ts - c.warm_up_steps = 0 THEN "ZeroDivisionError"
    ELSE IF c.mode = "decay" THEN "AttributeError"
    ELSE "ok"

(* The exception step() raises for counter cs, or "ok".  In the order of   *)
(* the code: the assertion; the division of the steady-state ratio; the   *)
(* read of self.training_config in the decay branch, an attribute that     *)
(* __init__ never assigns.                                                 *)
StepRaises(c, ts, cs) ==
    IF ~(0 <= cs /\ cs <= ts) THEN "AssertionError"
    ELSE IF cs < c.warm_up_steps THEN "ok"
    ELSE IF ts - c.warm_up_steps = 0 THEN "ZeroDivisionError"
    ELSE IF c.mode = "decay" /\ "training_config" \notin SchedulerAttrs
         THEN "AttributeError"
    ELSE "ok"

(* the rate step() assigns to self.lr when it does not raise; the decay    *)
(* branch raises at line 152 before line 153 assigns                       *)
ComputeLR(c, ts, cs) ==
    IF cs < c.warm_up_steps
    THEN WarmUpLR(c, cs)
    ELSE LET ratio == CurrentRatio(cs, c.warm_up_steps, ts)
         IN  CASE c.mode = "step"   -> StepLR(c, ratio)
               [] c.mode = "poly"   -> PolyLR(c, ratio)
               [] c.mode = "cos"    -> CosLR(c, ratio)
               [] c.mode = "linear" -> LinearLR(c, ratio)

(* only the first parameter group is written *)
WriteGroups_FirstOnly(groups, rate) == [groups EXCEPT ![1] = rate]

(* lines 155-156 *)
WriteGroups(groups, rate) == [g \in 1..Len(groups) |-> rate]

(* "= 1" in place of "+= 1" *)
Increment_Assign(cs) == 1

(* line 157 *)
Increment(cs) == cs + 1

(* LRScheduler.step(metric); the metric is not read *)
step ==
    /\ calls < MaxCalls
    /\ calls' = calls + 1
    /\ outcome' = StepRaises(scheduler_cfg, total_steps, current_step)
    /\ IF outcome' = "ok"
       THEN /\ lr' = ComputeLR(scheduler_cfg, total_steps, current_step)
            /\ param_groups' = WriteGroups(param_groups, lr')
            /\ current_step' = Increment(current_step)
       ELSE UNCHANGED <<lr, param_groups, current_step>>
    /\ UNCHANGED <<scheduler_cfg, total_steps>>
    /\ UNCHANGED model_vars
    /\ UNCHANGED cluster_vars

(* ----------------------- BrainNetworkTransformer ---------------------- *)
NodeCounts == {2, 3}

(* the model configurations explored: sizes and pooling of equal length *)
ModelConfigs ==
    UNION { { [node_sz |-> n, sizes |-> sz, pooling |-> po] :
                n \in NodeCounts,
                sz \in [1..k -> NodeCounts],
                po \in [1..k -> BOOLEAN] } : k \in 1..MaxStages }

(* default_HPs, model part, scaled down: two stages, the second one pools *)
DefaultModel ==
    [node_sz |-> 3, sizes |-> <<3, 2>>, pooling |-> <<FALSE, TRUE>>]

(* sizes after "sizes[0] = model_cfg.node_sz" *)
Sizes(mc) == [mc.sizes EXCEPT ![1] = mc.node_sz]

(* in_sizes = [model_cfg.node_sz] + sizes[:-1] *)
InSizes(mc) ==
    <<mc.node_sz>> \o SubSeq(Sizes(mc), 1, Len(mc.sizes) - 1)

(* the loop of __init__ that appends one TransPoolingEncoder per size; a   *)
(* stage owns a DEC (attribute dec) exactly when it pools                  *)
BuildAttentionList(mc) ==
    [index \in 1..Len(mc.sizes) |->
        [ input_node_num  |-> InSizes(mc)[index],
          output_node_num |-> Sizes(mc)[index],
          pooling         |-> mc.pooling[index] ]]

(* TransPoolingEncoder.is_pooling_enabled *)
is_pooling_enabled(stage) == stage.pooling

(* the assignment of "no assignment" (None) and of stage i *)
NoAssignment == [stage |-> 0]
AssignmentOf(i) == [stage |-> i]

(* the second component of what TransPoolingEncoder.forward returns,     *)
(* stage by stage                                                          *)
StageAssignments(al) ==
    [i \in 1..Len(al) |-> IF al[i].pooling THEN AssignmentOf(i) ELSE NoAssignment]

(* self.dec.loss(assignment) of the stage at position d of attention_list, *)
(* kept symbolic: which DEC evaluated which assignment                     *)
StageLoss(d, assignment) == [dec |-> d, assignment |-> assignment.stage]

(* decs = list(filter(is_pooling_enabled, attention_list)), as positions *)
FilterDecs(al) ==
    SelectSeq([i \in 1..Len(al) |-> i], LAMBDA i : is_pooling_enabled(al[i]))

(* assignments = list(filter(lambda x: x is not None, assignments)) *)
FilterAssignments(assignments) ==
    SelectSeq(assignments, LAMBDA x : x # NoAssignment)

(* The loop of loss(): loss_all starts as None and becomes the sum of the  *)
(* terms met so far; a sum is the sequence of its terms.  decs[index]      *)
(* beyond the end of decs raises IndexError.                               *)
RECURSIVE LossLoop(_, _, _, _)
LossLoop(decs, assignments, index, loss_all) ==
    IF index > Len(assignments) THEN loss_all
    ELSE IF index > Len(decs)
         THEN [raised |-> "IndexError", none |-> TRUE, terms |-> <<>>]
    ELSE LossLoop(decs, assignments, index + 1,
                  [ raised |-> "none", none |-> FALSE,
                    terms |-> Append(loss_all.terms,
                                     StageLoss(decs[index], assignments[index])) ])

LossValue(al, assignments) ==
    LossLoop(FilterDecs(al), FilterAssignments(assignments), 1,
             [raised |-> "none", none |-> TRUE, terms |-> <<>>])

(* BrainNetworkTransformer.loss(assignments), called with the assignments *)
(* the stages return                                                       *)
loss ==
    /\ loss_ret' = [called |-> TRUE,
                    result |-> LossValue(attention_list,
                                         StageAssignments(attention_list))]
    /\ UNCHANGED <<model_cfg, attention_list, centers_ret, forward_ret>>
    /\ UNCHANGED sched_vars
    /\ UNCHANGED cluster_vars

(* BrainNetworkTransformer.get_cluster_centers(): reads self.dec, an       *)
(* attribute that __init__ never assigns (the DECs are attributes of the   *)
(* stages), so the lookup raises and nothing is returned                   *)
GetClusterCentersRaises(attrs) ==
    IF "dec" \in attrs THEN "none" ELSE "AttributeError"

get_cluster_centers ==
    /\ centers_ret' = [called |-> TRUE,
                       raised |-> GetClusterCentersRaises(ModelAttrs),
                       centers_of |-> 0]
    /\ UNCHANGED <<model_cfg, attention_list, loss_ret, forward_ret>>
    /\ UNCHANGED sched_vars
    /\ UNCHANGED cluster_vars

(* TransPoolingEncoder.forward on a tensor of `count` nodes: a stage that  *)
(* pools hands the tensor to its DEC, whose encoder was built for          *)
(* input_node_num nodes (the flattened width must match, else the Linear   *)
(* layer raises), and returns cluster_number = output_node_num nodes; a    *)
(* stage that does not pool returns the node count it was given.           *)
StageRaises(stage, count) ==
    IF stage.pooling /\ count # stage.input_node_num
    THEN "RuntimeError" ELSE "none"

StageOutput(stage, count) ==
    IF stage.pooling THEN stage.output_node_num ELSE count

(* the loop of BrainNetworkTransformer.forward over attention_list;        *)
(* received collects the node count each stage was given                   *)
RECURSIVE ForwardLoop(_, _, _, _)
ForwardLoop(al, i, count, received) ==
    IF i > Len(al)
    THEN [raised |-> "none", received |-> received, leaving |-> count]
    ELSE IF StageRaises(al[i], count) # "none"
         THEN [raised |-> StageRaises(al[i], count),
               received |-> Append(received, count), leaving |-> 0]
    ELSE ForwardLoop(al, i + 1, StageOutput(al[i], count),
                     Append(received, count))

(* self.fc starts with Linear(8 * sizes[-1], 256): the flattened tensor of *)
(* 8 * count values must have that width                                   *)
HeadRaises(mc, count) ==
    IF 8 * count # 8 * mc.sizes[Len(mc.sizes)] THEN "RuntimeError" ELSE "none"

ForwardValue(mc, al) ==
    LET r == ForwardLoop(al, 1, mc.node_sz, <<>>)
    IN  IF r.raised # "none" THEN r
        ELSE [r EXCEPT !.raised = HeadRaises(mc, r.leaving)]

(* BrainNetworkTransformer.forward(node_feature), node_feature of node_sz  *)
(* nodes                                                                   *)
forward ==
    /\ forward_ret' = [called |-> TRUE,
                       result |-> ForwardValue(model_cfg, attention_list)]
    /\ UNCHANGED <<model_cfg, attention_list, loss_ret, centers_ret>>
    /\ UNCHANGED sched_vars
    /\ UNCHANGED cluster_vars

(* -------------------------- ClusterAssignment ------------------------- *)
MaxClusters == 3
MaxDim == 3

(* the rows the initializer (xavier_uniform_) may draw: non-zero rows *)
CenterRows(D) == {v \in [1..D -> {0, 1}] : \E d \in 1..D : v[d] # 0}

(* the arguments of ClusterAssignment.__init__; alpha is 1.0 throughout    *)
(* (DEC never passes another value) and cluster_centers is None            *)
AssignmentConfigs ==
    { [cluster_number |-> k, embedding_dimension |-> d,
       orthogonal |-> o, project_assignment |-> pa] :
        k \in 1..MaxClusters, d \in 2..MaxDim, o \in BOOLEAN, pa \in BOOLEAN }

(* default_HPs: orthogonal and project_assignment both true, scaled down *)
DefaultAssignment ==
    [cluster_number |-> 2, embedding_dimension |-> 2,
     orthogonal |-> TRUE, project_assignment |-> TRUE]

Zero == RInt(0)

(* a / b for b # 0 *)
RDiv(a, b) == RMul(a, RNorm(b[2], b[1]))

RECURSIVE RSum(_)
RSum(xs) == IF Len(xs) = 0 THEN Zero ELSE RAdd(xs[1], RSum(Tail(xs)))

(* vectors of rationals; the row of NaNs is the empty row *)
NaNRow == <<>>
RVec(v) == [d \in 1..Len(v) |-> RInt(v[d])]
RVecAdd(u, v) == [d \in 1..Len(u) |-> RAdd(u[d], v[d])]
RVecSub(u, v) == [d \in 1..Len(u) |-> RSub(u[d], v[d])]
RVecScale(a, u) == [d \in 1..Len(u) |-> RMul(a, u[d])]

(* torch.dot *)
RDot(u, v) == RSum([d \in 1..Len(u) |-> RMul(u[d], v[d])])

(* ClusterAssignment.project(u, v), for u with dot(u, u) # 0 *)
project(u, v) == RVecScale(RDiv(RDot(u, v), RDot(u, u)), u)

(* A center is the row vec divided by the square root of norm2, the        *)
(* division by torch.norm kept exact.  The center of NaNs is what a        *)
(* division 0 / 0 leaves.                                                  *)
Center(vec, norm2) == [vec |-> vec, norm2 |-> norm2]
NaNCenter == Center(NaNRow, Zero)
IsNaNCenter(c) == c.vec = NaNRow

(* the rows projected onto are rows of the original draw instead of the   *)
(* rows already updated in place                                           *)
ProjectionBasis_Original(original, rows) == original

(* the rows the inner loop projects onto, initial_cluster_centers[j] for   *)
(* j < i: line 455 has updated them in place                               *)
ProjectionBasis(original, rows) == rows

(* the inner loop, lines 450-454: project = 0; project += project(...) *)
RECURSIVE ProjectLoop(_, _, _, _, _)
ProjectLoop(basis, v, i, j, acc) ==
    IF j >= i THEN acc
    ELSE ProjectLoop(basis, v, i, j + 1, RVecAdd(acc, project(basis[j], v)))

(* The outer loop, lines 449-458, for Python index i - 1.  A projection   *)
(* onto a row u with dot(u, u) = 0 divides 0 by 0 and makes the row NaN;   *)
(* a row that the subtraction leaves at zero is divided by its norm 0.     *)
RECURSIVE OrthoLoop(_, _, _, _)
OrthoLoop(original, rows, ortho, i) ==
    IF i > Len(rows) THEN ortho
    ELSE LET basis == ProjectionBasis(original, rows)
             nan   == \E j \in 1..(i - 1) : RDot(basis[j], basis[j]) = Zero
             ui    == IF nan THEN NaNRow
                      ELSE RVecSub(rows[i],
                                   ProjectLoop(basis, rows[i], i, 1,
                                       [d \in 1..Len(rows[i]) |-> Zero]))
             n2    == RDot(ui, ui)
             ci    == IF nan \/ n2 = Zero THEN NaNCenter ELSE Center(ui, n2)
         IN  OrthoLoop(original, [rows EXCEPT ![i] = ui], Append(ortho, ci), i + 1)

(* lines 444-460 *)
Orthogonalize(initial) ==
    OrthoLoop(initial, initial, <<Center(initial[1], RInt(1))>>, 2)

(* ClusterAssignment.__init__: draws the initial centers and, when         *)
(* orthogonal, orthogonalizes them                                         *)
ClusterAssignment_init ==
    /\ cluster_centers = <<>>
    /\ \E draw \in [1..assignment_cfg.cluster_number ->
                      CenterRows(assignment_cfg.embedding_dimension)] :
          LET initial == [i \in 1..Len(draw) |-> RVec(draw[i])]
          IN  /\ initial_centers' = initial
              /\ cluster_centers' =
                    IF assignment_cfg.orthogonal
                    THEN Orthogonalize(initial)
                    ELSE [i \in 1..Len(initial) |-> Center(initial[i], RInt(1))]
    /\ UNCHANGED <<assignment_cfg, assign_ret>>
    /\ UNCHANGED sched_vars
    /\ UNCHANGED model_vars

(* The tensors of ClusterAssignment.forward are fixed-point numbers, an    *)
(* integer x standing for x / FixScale; every product, quotient, square    *)
(* root and exponential rounds down to that precision.  The last division  *)
(* of each kernel, the one that normalizes, is kept as an exact rational.  *)
FixScale == 1000

(* alpha of DEC and ClusterAssignment, 1.0 *)
Alpha == 1

ToFix(r) == (r[1] * FixScale) \div r[2]
FMul(a, b) == (a * b) \div FixScale
FDiv(a, b) == (a * FixScale) \div b

RECURSIVE ISqrtLoop(_, _, _)
ISqrtLoop(n, lo, hi) ==
    IF lo >= hi THEN lo
    ELSE LET mid == (lo + hi + 1) \div 2
         IN  IF mid * mid <= n THEN ISqrtLoop(n, mid, hi)
                               ELSE ISqrtLoop(n, lo, mid - 1)

(* the square root of a fixed-point number a >= 0 *)
FSqrt(a) == ISqrtLoop(a * FixScale, 0, 40000)

RECURSIVE ISum(_)
ISum(xs) == IF Len(xs) = 0 THEN 0 ELSE xs[1] + ISum(Tail(xs))

RECURSIVE IMax(_)
IMax(xs) ==
    IF Len(xs) = 1 THEN xs[1]
    ELSE LET m == IMax(Tail(xs)) IN IF xs[1] > m THEN xs[1] ELSE m

(* exp(-y) for a fixed-point y >= 0: the Taylor polynomial of degree 4 on  *)
(* [0, 1], and exp(-y) = exp(-y/2)^2 beyond                                *)
RECURSIVE ExpNeg(_)
ExpNeg(Y) ==
    IF Y > FixScale
    THEN LET h == ExpNeg(Y \div 2) IN FMul(h, h)
    ELSE LET t2 == FMul(Y, Y) \div 2
             t3 == FMul(t2, Y) \div 3
             t4 == FMul(t3, Y) \div 4
         IN  FixScale - Y + t2 - t3 + t4

(* torch.nn.functional.softmax of one row x: exp(x - max x) over its sum *)
SoftmaxRow(x) ==
    LET m == IMax(x)
        e == [k \in 1..Len(x) |-> ExpNeg(m - x[k])]
    IN  [k \in 1..Len(x) |-> RNorm(e[k], ISum(e))]

(* self.cluster_centers as a tensor: row k is vec / sqrt(norm2) *)
CenterTensor(centers) ==
    [k \in 1..Len(centers) |->
        [d \in 1..Len(centers[k].vec) |->
            FDiv(ToFix(centers[k].vec[d]), FSqrt(ToFix(centers[k].norm2)))]]

FDot(u, v) == ISum([d \in 1..Len(u) |-> FMul(u[d], v[d])])

(* lines 480-486: the projected kernel; softmax over dim -1, the clusters *)
ProjectedKernel(batch, C) ==
    [n \in 1..Len(batch) |->
        LET assignment  == [k \in 1..Len(C) |-> FDot(batch[n], C[k])]
            squared     == [k \in 1..Len(C) |-> FMul(assignment[k], assignment[k])]
            norm        == [k \in 1..Len(C) |-> FSqrt(FDot(C[k], C[k]))]
            soft_assign == [k \in 1..Len(C) |-> FDiv(squared[k], norm[k])]
        IN  SoftmaxRow(soft_assign)]

(* lines 489-494: numerator of the Student-t kernel; with alpha = 1 the    *)
(* power (alpha + 1) / 2 is 1                                              *)
Numerator(batch, C) ==
    [n \in 1..Len(batch) |->
        [k \in 1..Len(C) |->
            LET diff         == [d \in 1..Len(C[k]) |-> batch[n][d] - C[k][d]]
                norm_squared == FDot(diff, diff)
            IN  FDiv(FixScale, FixScale + norm_squared \div Alpha)]]

(* the sum taken over dim 0, the batch, instead of dim 1 *)
StudentTKernel_SumDim0(batch, C) ==
    LET numerator == Numerator(batch, C)
    IN  [n \in 1..Len(batch) |->
            [k \in 1..Len(C) |->
                RNorm(numerator[n][k],
                      ISum([m \in 1..Len(batch) |-> numerator[m][k]]))]]

(* line 495: numerator / torch.sum(numerator, dim=1, keepdim=True) *)
StudentTKernel(batch, C) ==
    LET numerator == Numerator(batch, C)
    IN  [n \in 1..Len(batch) |->
            [k \in 1..Len(C) |-> RNorm(numerator[n][k], ISum(numerator[n]))]]

(* the batches explored: two different rows of embedding_dimension        *)
(* integers                                                                *)
Batches(D) ==
    { << [d \in 1..D |-> IF d = 1 THEN -1 ELSE b],
         [d \in 1..D |-> IF d = 1 THEN 2 ELSE 1 - b] >> : b \in {0, 1} }

(* what forward returns: NaN throughout when a center is NaN *)
AssignValue(pa, batch, centers) ==
    IF \E k \in 1..Len(centers) : IsNaNCenter(centers[k])
    THEN [called |-> TRUE, nan |-> TRUE, rows |-> <<>>]
    ELSE LET B == [n \in 1..Len(batch) |->
                      [d \in 1..Len(batch[n]) |-> batch[n][d] * FixScale]]
             C == CenterTensor(centers)
         IN  [called |-> TRUE, nan |-> FALSE,
              rows |-> IF pa THEN ProjectedKernel(B, C) ELSE StudentTKernel(B, C)]

(* ClusterAssignment.forward(batch) *)
ClusterAssignment_forward ==
    /\ cluster_centers # <<>>
    /\ \E batch \in Batches(assignment_cfg.embedding_dimension) :
          assign_ret' = AssignValue(assignment_cfg.project_assignment, batch,
                                    cluster_centers)
    /\ UNCHANGED <<assignment_cfg, initial_centers, cluster_centers>>
    /\ UNCHANGED sched_vars
    /\ UNCHANGED model_vars

(* --------------------------- specifications --------------------------- *)
SchedulerConstructed(c, ts, lr0, n) ==
    /\ scheduler_cfg = c
    /\ total_steps = ts
    /\ current_step = 0
    /\ lr = None
    /\ param_groups = [g \in 1..n |-> lr0]
    /\ outcome = "none"
    /\ calls = 0

ModelConstructed(mc) ==
    /\ model_cfg = [mc EXCEPT !.sizes = Sizes(mc)]
    /\ attention_list = BuildAttentionList(mc)
    /\ loss_ret = [called |-> FALSE,
                   result |-> [raised |-> "none", none |-> TRUE, terms |-> <<>>]]
    /\ centers_ret = [called |-> FALSE, raised |-> "none", centers_of |-> 0]
    /\ forward_ret = [called |-> FALSE,
                      result |-> [raised |-> "none", received |-> <<>>,
                                  leaving |-> 0]]

(* before ClusterAssignment.__init__ has run *)
AssignmentUnbuilt(ac) ==
    /\ assignment_cfg = ac
    /\ initial_centers = <<>>
    /\ cluster_centers = <<>>
    /\ assign_ret = [called |-> FALSE, nan |-> FALSE, rows |-> <<>>]

(* the scheduler under every configuration, beside the default model *)
SchedulerInit ==
    /\ \E c \in SchedulerConfigs, ts \in 1..MaxTotalSteps,
          lr0 \in OptimizerLRs, n \in 1..MaxGroups :
          SchedulerConstructed(c, ts, lr0, n)
    /\ ModelConstructed(DefaultModel)
    /\ AssignmentUnbuilt(DefaultAssignment)

SchedulerNext == step

SchedulerSpec == SchedulerInit /\ [][SchedulerNext]_vars

(* the model under every configuration, beside the default scheduler *)
ModelInit ==
    /\ SchedulerConstructed(DefaultScheduler, MaxTotalSteps, <<1, 10000>>, 1)
    /\ \E mc \in ModelConfigs : ModelConstructed(mc)
    /\ AssignmentUnbuilt(DefaultAssignment)

ModelNext == loss \/ get_cluster_centers \/ forward

ModelSpec == ModelInit /\ [][ModelNext]_vars

(* one ClusterAssignment under every configuration, beside the default    *)
(* scheduler and model                                                     *)
ClusterInit ==
    /\ SchedulerConstructed(DefaultScheduler, MaxTotalSteps, <<1, 10000>>, 1)
    /\ ModelConstructed(DefaultModel)
    /\ \E ac \in AssignmentConfigs : AssignmentUnbuilt(ac)

ClusterNext == ClusterAssignment_init \/ ClusterAssignment_forward

ClusterSpec == ClusterInit /\ [][ClusterNext]_vars

TypeOK ==
    /\ scheduler_cfg \in SchedulerConfigs
    /\ current_step \in 0..(MaxTotalSteps + 1)
    /\ calls \in 0..MaxCalls
    /\ outcome \in {"none", "ok", "AssertionError", "ZeroDivisionError",
                    "AttributeError"}
    /\ Len(param_groups) \in 1..MaxGroups

(* ------------------------------ claims -------------------------------- *)
(* a step() call is being made *)
StepCalled == calls' = calls + 1

InRange == 0 <= current_step /\ current_step <= total_steps

(* C1, as stated: in every reachable state 0 <= current_step <=           *)
(* total_steps.  The call made at current_step = total_steps passes the    *)
(* assertion and increments the counter past total_steps.                  *)
C1_StepWithinTotal == 0 <= current_step /\ current_step <= total_steps

(* C1, amended: in every reachable state 0 <= current_step <=             *)
(* total_steps + 1.                                                        *)
C1_StepWithinTotalPlusOne ==
    0 <= current_step /\ current_step <= total_steps + 1

C1_Witness == outcome = "ok" /\ current_step = total_steps + 1

(* C2: every step() call that returns normally increases current_step by  *)
(* exactly 1, and no step() call, returning or failing, decreases or      *)
(* resets current_step.                                                    *)
C2_StepAdvancesByOne ==
    [][StepCalled =>
          /\ (outcome' = "ok" => current_step' = current_step + 1)
          /\ current_step' >= current_step]_vars

C2_Witness ==
    /\ current_step >= 2
    /\ calls > current_step
    /\ outcome # "ok"

(* C3: after every step() call that returns normally, the lr of every     *)
(* parameter group of the optimizer equals the scheduler's lr, and that    *)
(* lr is the rate of the value current_step had before the call.           *)
C3_GroupsCarryRateOfOldStep ==
    [][StepCalled /\ outcome' = "ok" =>
          /\ lr' # None
          /\ Len(param_groups') = Len(param_groups)
          /\ \A g \in 1..Len(param_groups') : param_groups'[g] = lr'
          /\ lr' = ComputeLR(scheduler_cfg, total_steps, current_step)
          /\ current_step' = current_step + 1]_vars

C3_Witness ==
    /\ outcome = "ok"
    /\ current_step >= 2
    /\ Len(param_groups) = MaxGroups
    /\ lr \notin OptimizerLRs
    /\ StepRaises(scheduler_cfg, total_steps, current_step) = "ok"
    /\ lr # ComputeLR(scheduler_cfg, total_steps, current_step)

(* C4, as stated: a step() call made when current_step is outside         *)
(* [0, total_steps] fails with an assertion error and leaves current_step, *)
(* lr and every group's lr unchanged; on a fresh scheduler the call number *)
(* total_steps + 2 fails this way, and so does every later call.           *)
C4_CallsPastTotalFailAssertion ==
    /\ [][StepCalled /\ ~InRange =>
             /\ outcome' = "AssertionError"
             /\ UNCHANGED <<current_step, lr, param_groups>>]_vars
    /\ [](calls >= total_steps + 2 => outcome = "AssertionError")

(* number of milestones strictly less than the ratio p/q *)
MilestonesBelow(ms, p, q) ==
    Cardinality({i \in 1..Len(ms) : ms[i][1] * q < p * ms[i][2]})

(* C5: in step mode, at a steady-state step within the range of the       *)
(* assertion and with total_steps # warm_up_steps (the ratio is defined),  *)
(* step() sets lr = base_lr * decay_factor^c, c the number of milestones   *)
(* strictly less than the ratio, for ascending-sorted milestones; a        *)
(* milestone equal to the ratio is not counted.                            *)
C5_StepModeCountsMilestonesBelow ==
    [][(/\ StepCalled
        /\ scheduler_cfg.mode = "step"
        /\ IsSorted(scheduler_cfg.milestones)
        /\ current_step >= scheduler_cfg.warm_up_steps
        /\ current_step <= total_steps
        /\ total_steps # scheduler_cfg.warm_up_steps) =>
          /\ outcome' = "ok"
          /\ lr' = RMul(scheduler_cfg.base_lr,
                        RPow(scheduler_cfg.decay_factor,
                             MilestonesBelow(scheduler_cfg.milestones,
                                 current_step - scheduler_cfg.warm_up_steps,
                                 total_steps - scheduler_cfg.warm_up_steps)))]_vars

(* a step has just run at a ratio equal to a milestone, with a smaller     *)
(* milestone before it: one milestone counted, the equal one not           *)
C5_Witness ==
    /\ scheduler_cfg.mode = "step"
    /\ outcome = "ok"
    /\ current_step - 1 >= scheduler_cfg.warm_up_steps
    /\ total_steps > scheduler_cfg.warm_up_steps
    /\ IsSorted(scheduler_cfg.milestones)
    /\ \E i \in 2..Len(scheduler_cfg.milestones) :
          /\ scheduler_cfg.milestones[i] =
                 RNorm(current_step - 1 - scheduler_cfg.warm_up_steps,
                       total_steps - scheduler_cfg.warm_up_steps)
          /\ RLess(scheduler_cfg.milestones[1], scheduler_cfg.milestones[i])
    /\ lr = RMul(scheduler_cfg.base_lr, scheduler_cfg.decay_factor)

(* C6, as stated: in decay mode, at a steady-state step, step() returns   *)
(* normally and sets lr = base_lr * lr_decay^epoch, epoch = current_step   *)
(* // steps_per_epoch, for some positive steps_per_epoch.                  *)
C6_DecayModeSetsRate ==
    [][(/\ StepCalled
        /\ scheduler_cfg.mode = "decay"
        /\ current_step >= scheduler_cfg.warm_up_steps
        /\ current_step <= total_steps
        /\ total_steps # scheduler_cfg.warm_up_steps) =>
          /\ outcome' = "ok"
          /\ \E steps_per_epoch \in 1..(MaxTotalSteps + 1) :
                lr' = RMul(scheduler_cfg.base_lr,
                           RPow(scheduler_cfg.lr_decay,
                                current_step \div steps_per_epoch))]_vars

AllPoolingOff == \A i \in 1..Len(attention_list) : ~attention_list[i].pooling

(* C7, as stated: loss() on a stack with all pooling flags false (every   *)
(* per-stage assignment None) returns 0, the empty sum, and does not       *)
(* raise.                                                                  *)
C7_LossOfNoPoolingIsZero ==
    (loss_ret.called /\ AllPoolingOff) =>
        /\ loss_ret.result.raised = "none"
        /\ ~loss_ret.result.none
        /\ loss_ret.result.terms = <<>>

(* C8, as stated: get_cluster_centers() returns normally and its result   *)
(* is the cluster-center matrix of the final stage's ClusterAssignment,    *)
(* for a stack whose final stage pools.                                    *)
C8_CentersOfFinalStage ==
    (centers_ret.called /\ attention_list[Len(attention_list)].pooling) =>
        /\ centers_ret.raised = "none"
        /\ centers_ret.centers_of = Len(attention_list)

(* C9: for every mode, at a step with current_step < warm_up_steps (and   *)
(* within the range of the assertion), step() sets lr = warm_up_from +     *)
(* (base_lr - warm_up_from) * current_step / warm_up_steps, whatever the   *)
(* mode; lr = warm_up_from at step 0.  Stated without the division:        *)
(* lr * warm_up_steps = warm_up_from * warm_up_steps                       *)
(*                      + (base_lr - warm_up_from) * current_step.         *)
C9_WarmUpIsLinear ==
    [][(/\ StepCalled
        /\ current_step < scheduler_cfg.warm_up_steps
        /\ current_step <= total_steps) =>
          /\ outcome' = "ok"
          /\ RMul(lr', RInt(scheduler_cfg.warm_up_steps)) =
                RAdd(RMul(scheduler_cfg.warm_up_from,
                          RInt(scheduler_cfg.warm_up_steps)),
                     RMul(RSub(scheduler_cfg.base_lr, scheduler_cfg.warm_up_from),
                          RInt(current_step)))
          /\ (current_step = 0 => lr' = scheduler_cfg.warm_up_from)]_vars

(* a warm-up step past step 0 has just run in decay mode, strictly         *)
(* between warm_up_from and base_lr                                        *)
C9_Witness ==
    /\ scheduler_cfg.mode = "decay"
    /\ outcome = "ok"
    /\ current_step >= 2
    /\ current_step <= scheduler_cfg.warm_up_steps
    /\ RLess(scheduler_cfg.warm_up_from, lr)
    /\ RLess(lr, scheduler_cfg.base_lr)

(* C10: in cos mode with warm_up_steps = 0, step() sets lr = base_lr at   *)
(* current_step = 0, lr = (base_lr + target_lr) / 2 at current_step =      *)
(* total_steps / 2, and lr = target_lr at current_step = total_steps (up   *)
(* to the rounding of doubles, which the rationals leave out).             *)
C10_CosAtStartMiddleEnd ==
    [][(/\ StepCalled
        /\ scheduler_cfg.mode = "cos"
        /\ scheduler_cfg.warm_up_steps = 0) =>
          /\ (current_step = 0 =>
                outcome' = "ok" /\ lr' = scheduler_cfg.base_lr)
          /\ (2 * current_step = total_steps =>
                /\ outcome' = "ok"
                /\ RMul(lr', RInt(2)) =
                       RAdd(scheduler_cfg.base_lr, scheduler_cfg.target_lr))
          /\ (current_step = total_steps =>
                outcome' = "ok" /\ lr' = scheduler_cfg.target_lr)]_vars

(* the step at the middle of a cos schedule has just run *)
C10_Witness ==
    /\ scheduler_cfg.mode = "cos"
    /\ scheduler_cfg.warm_up_steps = 0
    /\ outcome = "ok"
    /\ 2 * (current_step - 1) = total_steps
    /\ RLess(scheduler_cfg.target_lr, lr)
    /\ RLess(lr, scheduler_cfg.base_lr)

(* every center is a row of numbers *)
CentersValid ==
    /\ cluster_centers # <<>>
    /\ \A k \in 1..Len(cluster_centers) : ~IsNaNCenter(cluster_centers[k])

(* C11: for both kernels, every row of the matrix ClusterAssignment       *)
(* .forward returns is non-negative and sums to 1 (exactly, the            *)
(* normalizing division being exact), for a batch of numbers and centers   *)
(* that are numbers.                                                       *)
C11_RowsAreDistributions ==
    (assign_ret.called /\ CentersValid) =>
        /\ ~assign_ret.nan
        /\ Len(assign_ret.rows) = 2
        /\ \A n \in 1..Len(assign_ret.rows) :
              /\ Len(assign_ret.rows[n]) = assignment_cfg.cluster_number
              /\ \A k \in 1..Len(assign_ret.rows[n]) :
                    /\ assign_ret.rows[n][k][2] > 0
                    /\ assign_ret.rows[n][k][1] >= 0
              /\ RSum(assign_ret.rows[n]) = RInt(1)

(* the Student-t kernel has returned two different rows over three         *)
(* orthogonalized centers, every entry strictly inside (0, 1)              *)
C11_Witness ==
    /\ assign_ret.called
    /\ CentersValid
    /\ ~assignment_cfg.project_assignment
    /\ assignment_cfg.orthogonal
    /\ assignment_cfg.cluster_number = 3
    /\ assign_ret.rows[1] # assign_ret.rows[2]
    /\ \A n \in 1..2 : \A k \in 1..3 :
          /\ RLess(Zero, assign_ret.rows[n][k])
          /\ RLess(assign_ret.rows[n][k], RInt(1))

(* the matrix without row r and column c *)
Minor(M, r, c) ==
    [i \in 1..(Len(M) - 1) |->
        [j \in 1..(Len(M) - 1) |->
            M[IF i < r THEN i ELSE i + 1][IF j < c THEN j ELSE j + 1]]]

(* determinant, by expansion along the first row *)
RECURSIVE Det(_)
Det(M) ==
    IF Len(M) = 1 THEN M[1][1]
    ELSE RSum([j \in 1..Len(M) |->
                  RMul(IF j % 2 = 1 THEN M[1][j] ELSE RNeg(M[1][j]),
                       Det(Minor(M, 1, j)))])

(* rows are linearly independent iff their Gram determinant is not zero *)
LinearlyIndependent(rows) ==
    Det([i \in 1..Len(rows) |-> [j \in 1..Len(rows) |-> RDot(rows[i], rows[j])]])
        # Zero

(* centers 1 .. cluster_number - 1 of Python are centers 2 .. Len here *)
OrthonormalFromSecond(centers, initial) ==
    /\ centers[1] = Center(initial[1], RInt(1))
    /\ \A i \in 2..Len(centers) :
          /\ ~IsNaNCenter(centers[i])
          /\ RDiv(RDot(centers[i].vec, centers[i].vec), centers[i].norm2) = RInt(1)
    /\ \A i \in 2..Len(centers) : \A j \in 2..Len(centers) :
          i # j => RDot(centers[i].vec, centers[j].vec) = Zero

(* C12, as stated: constructed with orthogonal = true and cluster_count   *)
(* >= 2, center 0 is the initial center 0, every center i >= 1 has unit    *)
(* norm, and two distinct centers i, j >= 1 have dot product 0.            *)
C12_OrthogonalizedCentersOrthonormal ==
    (/\ cluster_centers # <<>>
     /\ assignment_cfg.orthogonal
     /\ assignment_cfg.cluster_number >= 2) =>
        OrthonormalFromSecond(cluster_centers, initial_centers)

(* C12, amended: the same, for linearly independent initial centers       *)
(* (which needs cluster_count <= embedding_dimension).                     *)
C12_IndependentCentersOrthonormal ==
    (/\ cluster_centers # <<>>
     /\ assignment_cfg.orthogonal
     /\ assignment_cfg.cluster_number >= 2
     /\ LinearlyIndependent(initial_centers)) =>
        OrthonormalFromSecond(cluster_centers, initial_centers)

(* three independent centers orthogonalized, the second and the third      *)
(* both moved off their initial rows                                       *)
C12_Witness ==
    /\ cluster_centers # <<>>
    /\ assignment_cfg.orthogonal
    /\ assignment_cfg.cluster_number = 3
    /\ LinearlyIndependent(initial_centers)
    /\ cluster_centers[2].vec # initial_centers[2]
    /\ cluster_centers[3].vec # initial_centers[3]
    /\ RDot(initial_centers[2], initial_centers[3]) # Zero
    /\ cluster_centers[3].norm2 # RInt(1)

(* C13, as stated: for every configuration, forward hands every stage the *)
(* node count it was constructed with as input_node_num, and the node      *)
(* count leaving the final stage is sizes[-1].                             *)
C13_StagesReceiveConfiguredCounts ==
    forward_ret.called =>
        /\ Len(forward_ret.result.received) = Len(attention_list)
        /\ \A i \in 1..Len(attention_list) :
              forward_ret.result.received[i] = attention_list[i].input_node_num
        /\ forward_ret.result.leaving = model_cfg.sizes[Len(model_cfg.sizes)]

PoolingStages ==
    {i \in 1..Len(attention_list) : attention_list[i].pooling}

(* C14, as stated: loss(), given the per-stage assignments in stage       *)
(* order, evaluates each assignment with the DEC of the stage that         *)
(* produced it and returns the sum of these losses over all pooling        *)
(* stages.                                                                 *)
C14_LossPairsStageWithItsAssignment ==
    loss_ret.called =>
        /\ loss_ret.result.raised = "none"
        /\ ~loss_ret.result.none
        /\ Len(loss_ret.result.terms) = Cardinality(PoolingStages)
        /\ \A t \in 1..Len(loss_ret.result.terms) :
              loss_ret.result.terms[t].dec = loss_ret.result.terms[t].assignment
        /\ {loss_ret.result.terms[t].dec : t \in 1..Len(loss_ret.result.terms)}
              = PoolingStages

(* C15, as stated: with mode in {step, poly, cos, linear} and 0 <=        *)
(* warm_up_steps <= total_steps, each of the first total_steps + 1 step()  *)
(* calls on a fresh scheduler returns normally with lr set to a number.    *)
C15_FirstCallsReturn ==
    (/\ scheduler_cfg.mode \in {"step", "poly", "cos", "linear"}
     /\ 0 <= scheduler_cfg.warm_up_steps
     /\ scheduler_cfg.warm_up_steps <= total_steps
     /\ 1 <= calls
     /\ calls <= total_steps + 1) =>
        /\ outcome = "ok"
        /\ lr # None

====
